---- MODULE Spec2Model ----
(***************************************************************************)
(* G15DesktopComponent (src/main/python/gnome15/g15desktop.py): the        *)
(* client-side cache of the remote screens and pages of the Gnome15        *)
(* desktop service, its connect / disconnect sequences and its DBus        *)
(* signal handlers.                                                        *)
(*                                                                         *)
(* Every handler is cut into steps at its remote (blocking) calls and at   *)
(* its lock operations; a remote call is taken together with the accesses  *)
(* of the cache that follow it up to the next remote call.  A remote call  *)
(* raises DBusException exactly when the service does not own its bus name *)
(* at the time of the call (serviceUp = FALSE); what a successful remote   *)
(* call returns is drawn from the small sets below.                        *)
(*                                                                         *)
(* Spec   : the signals are dispatched one at a time by the thread that    *)
(*          ran start() (a main-loop dispatch).                            *)
(* SpecMT : the signals are delivered on callback threads that run         *)
(*          concurrently.                                                  *)
(***************************************************************************)
EXTENDS Integers, Sequences, FiniteSets, TLC

\* ------------------------------------------------------------------ bounds
\* remote screens
NumScreens == 1
\* the count of matches of one signal saturates here
MaxReceivers == 2

\* --------------------------------------------------------------- constants
PRI_LOW == 20

None == "None"
WatchedName == "org.gnome15.Gnome15"
OtherName == "org.example.Other"
Owner1 == ":1.1"
Owner2 == ":1.2"
ServiceObject == "/org/gnome15/Service"
ServiceKey == "service"
ServiceText == "g15-desktop-service is not running."

PathName(i) == "/org/gnome15/Screen" \o ToString(i)
Paths == {PathName(i) : i \in 1..NumScreens}
Pages == {1}
Titles == {"Weather", "Clock"}
Messages == {None, "Low battery"}
Priorities == {PRI_LOW - 1, PRI_LOW, PRI_LOW + 1}
Threads == {"main", "callback"}
MainThread == "main"
NoThread == "none"

\* str(page_sequence_number): the key of a page in a screen's items
Str(n) == ToString(n)

\* ------------------------------------------------------------ dictionaries
EmptyMap == [k \in {} |-> None]
Put(m, k, v) == [x \in DOMAIN m \cup {k} |-> IF x = k THEN v ELSE m[x]]
Del(m, k) == [x \in DOMAIN m \ {k} |-> m[x]]

Min(a, b) == IF a < b THEN a ELSE b

\* ------------------------------------------------------ signal receivers
Reg(h, i, s) == [handler |-> h, iface |-> i, signal |-> s]
RegScreenAdded == Reg("_add_screen", "org.gnome15.Service", "ScreenAdded")
RegScreenRemoved == Reg("_remove_screen", "org.gnome15.Service", "ScreenRemoved")
RegPageCreated == Reg("_page_created", "org.gnome15.Screen", "PageCreated")
RegPageTitleChanged == Reg("_page_title_changed", "org.gnome15.Screen", "PageTitleChanged")
RegPageDeleting == Reg("_page_deleting", "org.gnome15.Screen", "PageDeleting")
RegAttentionRequested == Reg("_attention_requested", "org.gnome15.Screen", "AttentionRequested")
RegAttentionCleared == Reg("_attention_cleared", "org.gnome15.Screen", "AttentionCleared")
RegNameOwnerChanged == Reg("_name_owner_changed", "org.freedesktop.DBus", "NameOwnerChanged")

ServiceRegs == {RegScreenAdded, RegScreenRemoved, RegPageCreated, RegPageTitleChanged,
                RegPageDeleting, RegAttentionRequested, RegAttentionCleared}
AllRegs == ServiceRegs \cup {RegNameOwnerChanged}

\* session_bus.add_signal_receiver: one more match for (handler, interface, signal).
\* The count saturates at MaxReceivers.
add_signal_receiver(rc, h, i, s) ==
    [rc EXCEPT ![Reg(h, i, s)] = Min(@ + 1, MaxReceivers)]

\* session_bus.remove_signal_receiver: drops every match registered for exactly this
\* handler, interface and signal name, and does nothing when there is none.
remove_signal_receiver(rc, h, i, s) ==
    [k \in DOMAIN rc |-> IF k = Reg(h, i, s) THEN 0 ELSE rc[k]]

\* the seven add_signal_receiver calls of _connect
ConnectReceivers(rc) ==
    LET r1 == add_signal_receiver(rc, "_add_screen", "org.gnome15.Service", "ScreenAdded")
        r2 == add_signal_receiver(r1, "_remove_screen", "org.gnome15.Service", "ScreenRemoved")
        r3 == add_signal_receiver(r2, "_page_created", "org.gnome15.Screen", "PageCreated")
        r4 == add_signal_receiver(r3, "_page_title_changed", "org.gnome15.Screen", "PageTitleChanged")
        r5 == add_signal_receiver(r4, "_page_deleting", "org.gnome15.Screen", "PageDeleting")
        r6 == add_signal_receiver(r5, "_attention_requested", "org.gnome15.Screen", "AttentionRequested")
    IN  add_signal_receiver(r6, "_attention_cleared", "org.gnome15.Screen", "AttentionCleared")

\* the seven remove_signal_receiver calls of _disconnect, as the source writes them
DisconnectReceivers(rc) ==
    LET r1 == remove_signal_receiver(rc, "_page_created", "org.gnome15.Service", "ScreenAdded")
        r2 == remove_signal_receiver(r1, "_page_title_changed", "org.gnome15.Service", "ScreenRemoved")
        r3 == remove_signal_receiver(r2, "_page_created", "org.gnome15.Screen", "PageCreated")
        r4 == remove_signal_receiver(r3, "_page_title_changed", "org.gnome15.Screen", "PageTitleChanged")
        r5 == remove_signal_receiver(r4, "_page_deleting", "org.gnome15.Screen", "PageDeleting")
        r6 == remove_signal_receiver(r5, "_attention_requested", "org.gnome15.Screen", "AttentionRequested")
    IN  remove_signal_receiver(r6, "_attention_cleared", "org.gnome15.Screen", "AttentionCleared")

\* ------------------------------------------------------------------ cache
\* G15Screen.__init__
G15Screen(path, device_model_fullname, device_uid) ==
    [path |-> path,
     device_model_fullname |-> device_model_fullname,
     device_uid |-> device_uid,
     items |-> EmptyMap,
     message |-> None]

\* what GetDeviceInformation() of the remote screen returns
DeviceInformation(path) == [device_uid |-> "uid" \o path, device_model_fullname |-> "Model"]

\* mutant: _add_screen keeps the items of a screen that is already cached
AddScreen_KeepItems(sc, path) ==
    LET info == DeviceInformation(path)
        fresh == G15Screen(path, info.device_model_fullname, info.device_uid)
    IN  Put(sc, path, IF path \in DOMAIN sc THEN [fresh EXCEPT !.items = sc[path].items]
                                              ELSE fresh)

\* _add_screen, up to the assignment self.screens[screen_path] = screen
AddScreen(sc, path) ==
    LET info == DeviceInformation(path)
    IN  Put(sc, path, G15Screen(path, info.device_model_fullname, info.device_uid))

\* _add_screen: screen.message = remote_screen.GetMessage() when attention is requested
SetMessage(sc, path, attention, message) ==
    IF attention /\ path \in DOMAIN sc
    THEN [sc EXCEPT ![path].message = message]
    ELSE sc

\* _remove_screen, the deletion
RemoveScreen(sc, path) == IF path \in DOMAIN sc THEN Del(sc, path) ELSE sc

\* mutant: _add_page takes every page as absent
PageAbsent_Always(sc, path, seq_no) == TRUE

\* _add_page: the guard "not seq_no in items"
PageAbsent(sc, path, seq_no) == seq_no \notin DOMAIN sc[path].items

\* _add_page: items[seq_no] = page.GetTitle()
AddPage(sc, path, seq_no, title) ==
    [sc EXCEPT ![path].items = Put(@, seq_no, title)]

\* _page_title_changed: items[str(page_sequence_number)] = title
SetTitle(sc, path, page_sequence_number, title) ==
    [sc EXCEPT ![path].items = Put(@, Str(page_sequence_number), title)]

\* _page_deleting: del items[page_item_key]
DeletePage(sc, path, page_item_key) ==
    [sc EXCEPT ![path].items = Del(@, page_item_key)]

\* the test of _page_created and _connect on the fetched priority
PriorityShown(priority) == priority >= PRI_LOW

\* mutant: _reset_attention leaves the map as it is
ResetAttention_Keep(am) == am

\* _reset_attention: self.attention_messages = {}
ResetAttention(am) == EmptyMap

\* mutant: _attention_requested stores the message whether or not the key is there
RequestAttention_Overwrite(am, key, message) == Put(am, key, message)

\* _attention_requested: the insertion
RequestAttention(am, key, message) ==
    IF key \notin DOMAIN am THEN Put(am, key, message) ELSE am

\* _attention_cleared: the deletion
ClearAttention(am, key) == IF key \in DOMAIN am THEN Del(am, key) ELSE am

\* check_attention: "for i in self.attention_messages: ... break" visits the first key
\* of the dictionary; the iteration order of a dictionary that is not modified is fixed.
FirstKey(am) == CHOOSE k \in DOMAIN am : TRUE

HookCall(hook, message) == [hook |-> hook, message |-> message]

\* mutant: check_attention clears first and then shows the message
check_attention_ClearFirst(am) ==
    IF Cardinality(DOMAIN am) = 0
    THEN <<HookCall("clear_attention", None)>>
    ELSE <<HookCall("clear_attention", None), HookCall("attention", am[FirstKey(am)])>>

\* check_attention: the hooks it invokes, in order
check_attention(am) ==
    IF Cardinality(DOMAIN am) = 0
    THEN <<HookCall("clear_attention", None)>>
    ELSE <<HookCall("attention", am[FirstKey(am)])>>

\* _disconnect: the guard of the loop that removes the cached screens
DisconnectClears(svc, conn) == svc # None /\ conn


\* ------------------------------------------------------------------ state
VARIABLES
    screens,             \* self.screens: screen path -> G15Screen
    service,             \* self.service: None or the service proxy
    connected,           \* self.connected
    attention_messages,  \* self.attention_messages: key -> message
    lock,                \* self.lock (RLock): owner thread and depth
    receivers,           \* the signal matches registered on session_bus
    th,                  \* per thread: the running handler, its position and locals
    serviceUp,           \* the service owns org.gnome15.Gnome15 on the bus
    bus,                 \* the NameOwnerChanged signal in flight to this connection
                         \* (at most one at a time: the next is emitted once it is taken)
    phase,               \* 0 never connected, 1 after a successful connect,
                         \* 2 after a disconnect that followed a successful connect
    track,               \* paths added minus removed since the last connect
    startFailed,         \* the connect attempt of start() raised DBusException
    acquiredAfterFail    \* the service took its name after that and still owns it

vars == <<screens, service, connected, attention_messages, lock, receivers, th,
          serviceUp, bus, phase, track, startFailed, acquiredAfterFail>>

cache == <<screens, attention_messages>>
conn == <<service, connected>>
env == <<serviceUp, bus, acquiredAfterFail>>

Free == [owner |-> NoThread, count |-> 0]
Off == [ok |-> FALSE, keys |-> {}]

IdleThread ==
    [op |-> "idle", pc |-> "idle",
     name |-> "", old |-> "", new |-> "",  \* NameOwnerChanged arguments
     path |-> "", seq |-> 0, title |-> "", \* screen_path, page_sequence_number, title / message
     prio |-> -1,                            \* the priority fetched for seq, -1 when none was
     todoS |-> {}, todoP |-> {},           \* what the running for loop has still to visit
     exc |-> "none",                       \* the exception being propagated
     rebuilt |-> FALSE,                    \* rebuild_desktop_component was invoked
     hooks |-> <<>>,                       \* clear_attention / attention calls made
     dirty |-> FALSE,                      \* the cache was changed and not rebuilt since
     did |-> "none",                       \* "connect", "reconnect" or "disconnect" completed
     cfault |-> FALSE,                     \* a DBusException was raised inside _connect
     gotS |-> {}, gotP |-> {},             \* what GetScreens / the page enumeration returned
     dropped |-> {},                       \* page keys of the entry a ScreenAdded replaced
     preS |-> {}, preA |-> {}]             \* keys of the cache when _disconnect was entered

\* mutant: the rebuild hook is not invoked
Rebuild_Skip(r) == r

\* What a rebuild_desktop_component() invoked with the lock held does: it returns or
\* it raises (the hook is the subclass's code). Elsewhere the hook is taken to return.
HookOutcomes == {"none", "Exception"}

\* rebuild_desktop_component(), and a change of the cache, by the thread of record r
Rebuild(r) == [r EXCEPT !.rebuilt = TRUE, !.dirty = FALSE]
Mutate(r) == [r EXCEPT !.dirty = TRUE]

OthersIdle(t) == \A u \in Threads \ {t} : th[u].op = "idle"
Quiescent == (\A u \in Threads : th[u].op = "idle") /\ bus = <<>>

\* RLock.acquire / RLock.release
CanAcquire(t) == lock.owner \in {NoThread, t}
\* mutant: acquire() counts twice
Acquire_Twice(t) == [owner |-> t, count |-> lock.count + 2]
Acquire(t) == [owner |-> t, count |-> lock.count + 1]
\* mutant: release() leaves the lock held
Release_Keep(t) == lock
Release(t) == IF lock.count = 1 THEN Free ELSE [lock EXCEPT !.count = @ - 1]

Init ==
    /\ screens = EmptyMap
    /\ service = None
    /\ connected = FALSE
    /\ attention_messages = EmptyMap
    /\ lock = Free
    /\ receivers = [k \in AllRegs |-> 0]
    /\ th = [t \in Threads |->
                IF t = MainThread
                THEN [IdleThread EXCEPT !.op = "start", !.pc = "c_reset"]
                ELSE IdleThread]
    /\ serviceUp \in BOOLEAN
    /\ bus = <<>>
    /\ phase = 0
    /\ track = Off
    /\ startFailed = FALSE
    /\ acquiredAfterFail = FALSE

\* ---------------------------------------------------------------- _connect
\* Where an exception raised in _connect goes: start() catches DBusException and
\* calls _disconnect; _name_owner_changed lets everything through.
ConnectRaised(r, e) ==
    IF r.op = "start" /\ e = "DBusException"
    THEN [r EXCEPT !.pc = "d_unsub", !.exc = "none", !.cfault = TRUE]
    ELSE [r EXCEPT !.pc = "exc", !.exc = e, !.cfault = (e = "DBusException")]

StartFails(r, e) == r.op = "start" /\ e = "DBusException"

NextScreen(todo) == IF todo = {} THEN "c_release" ELSE "c_loop"

\* _reset_attention(); self.service = session_bus.get_object(...)
Connect_GetService(t) ==
    LET r == Rebuild(th[t]) IN
    /\ th[t].pc = "c_reset"
    /\ attention_messages' = ResetAttention(attention_messages)
    /\ IF serviceUp
       THEN /\ service' = ServiceObject
            /\ th' = [th EXCEPT ![t] = [r EXCEPT !.pc = "c_connected"]]
            /\ UNCHANGED startFailed
       ELSE /\ th' = [th EXCEPT ![t] = ConnectRaised(r, "DBusException")]
            /\ startFailed' = (startFailed \/ StartFails(r, "DBusException"))
            /\ UNCHANGED service
    /\ UNCHANGED <<screens, connected, lock, receivers, env, phase, track>>

\* self.connected = True
Connect_SetConnected(t) ==
    /\ th[t].pc = "c_connected"
    /\ connected' = TRUE
    /\ th' = [th EXCEPT ![t].pc = "c_acquire"]
    /\ UNCHANGED <<cache, service, lock, receivers, env, phase, track, startFailed>>

\* self.lock.acquire()
Connect_Acquire(t) ==
    /\ th[t].pc = "c_acquire"
    /\ CanAcquire(t)
    /\ lock' = Acquire(t)
    /\ th' = [th EXCEPT ![t].pc = "c_screens"]
    /\ UNCHANGED <<cache, conn, receivers, env, phase, track, startFailed>>

\* for screen_path in self.service.GetScreens()
Connect_GetScreens(t) ==
    /\ th[t].pc = "c_screens"
    /\ IF service = None  \* a _disconnect on another thread has dropped the handle
       THEN th' = [th EXCEPT ![t] = [@ EXCEPT !.exc = "AttributeError", !.pc = "c_release"]]
       ELSE IF serviceUp
       THEN \E S \in SUBSET Paths :
                th' = [th EXCEPT ![t] = [@ EXCEPT !.todoS = S, !.gotS = S,
                                                  !.pc = NextScreen(S)]]
       ELSE th' = [th EXCEPT ![t] = [@ EXCEPT !.exc = "DBusException", !.pc = "c_release"]]
    /\ UNCHANGED <<cache, conn, lock, receivers, env, phase, track, startFailed>>

\* self._add_screen(screen_path): GetDeviceInformation and the insertion
Connect_AddScreen(t) ==
    /\ th[t].pc = "c_loop"
    /\ \E p \in th[t].todoS :
        IF serviceUp
        THEN /\ screens' = AddScreen(screens, p)
             /\ th' = [th EXCEPT ![t] = [Mutate(@) EXCEPT !.path = p, !.todoS = @ \ {p},
                                                          !.pc = "c_attn"]]
        ELSE /\ th' = [th EXCEPT ![t] = [@ EXCEPT !.exc = "DBusException", !.pc = "c_release"]]
             /\ UNCHANGED screens
    /\ UNCHANGED <<attention_messages, conn, lock, receivers, env, phase, track, startFailed>>

\* self._add_screen(screen_path): IsAttentionRequested and GetMessage
Connect_Attention(t) ==
    /\ th[t].pc = "c_attn"
    /\ IF serviceUp
       THEN \E a \in BOOLEAN, m \in Messages \ {None} :
             /\ screens' = SetMessage(screens, th[t].path, a, m)
             /\ th' = [th EXCEPT ![t].pc = "c_pages"]
       ELSE /\ th' = [th EXCEPT ![t] = [@ EXCEPT !.exc = "DBusException", !.pc = "c_release"]]
            /\ UNCHANGED screens
    /\ UNCHANGED <<attention_messages, conn, lock, receivers, env, phase, track, startFailed>>

NextPage(r, todo) == IF todo = {} THEN NextScreen(r.todoS) ELSE "c_page"

\* for page_sequence_number in remote_screen.GetPageSequenceNumbers(PRI_LOW)
Connect_GetPages(t) ==
    /\ th[t].pc = "c_pages"
    /\ IF serviceUp
       THEN \E P \in SUBSET Pages :
                th' = [th EXCEPT ![t] = [@ EXCEPT !.todoP = P, !.pc = NextPage(th[t], P)]]
       ELSE th' = [th EXCEPT ![t] = [@ EXCEPT !.exc = "DBusException", !.pc = "c_release"]]
    /\ UNCHANGED <<cache, conn, lock, receivers, env, phase, track, startFailed>>

\* The body of _page_created and of the page loop of _connect for thread record r:
\* page.GetPriority(), then _add_page(screen_path, page) when the priority passes.
\* Gives the new record (pc left to the caller) and the new screens.
PageStep(r, path, n, pr, title, hook) ==
    LET seq_no == Str(n)
        r1 == [r EXCEPT !.seq = n, !.prio = pr]
    IN  IF ~PriorityShown(pr)
        THEN [rec |-> r1, sc |-> screens]
        ELSE IF path \notin DOMAIN screens
        THEN [rec |-> [r1 EXCEPT !.exc = "KeyError"], sc |-> screens]
        ELSE IF PageAbsent(screens, path, seq_no)
        THEN [rec |-> [Rebuild(r1) EXCEPT !.gotP = @ \cup {<<path, seq_no>>}, !.exc = hook],
              sc |-> AddPage(screens, path, seq_no, title)]
        ELSE [rec |-> [r1 EXCEPT !.gotP = @ \cup {<<path, seq_no>>}], sc |-> screens]

\* if page.GetPriority() >= PRI_LOW: self._add_page(screen_path, page)
Connect_Page(t) ==
    /\ th[t].pc = "c_page"
    /\ \E n \in th[t].todoP :
        IF serviceUp
        THEN \E pr \in Priorities, title \in Titles, hook \in HookOutcomes :
              LET res == PageStep(th[t], th[t].path, n, pr, title, hook)
                  rest == th[t].todoP \ {n}
              IN  /\ screens' = res.sc
                  /\ th' = [th EXCEPT ![t] =
                              IF res.rec.exc # "none"
                              THEN [res.rec EXCEPT !.pc = "c_release"]
                              ELSE [res.rec EXCEPT !.todoP = rest,
                                                   !.pc = NextPage(res.rec, rest)]]
        ELSE /\ th' = [th EXCEPT ![t] = [@ EXCEPT !.exc = "DBusException", !.pc = "c_release"]]
             /\ UNCHANGED screens
    /\ UNCHANGED <<attention_messages, conn, lock, receivers, env, phase, track, startFailed>>

\* finally: self.lock.release()
Connect_Release(t) ==
    /\ th[t].pc = "c_release"
    /\ lock' = Release(t)
    /\ IF th[t].exc = "none"
       THEN /\ th' = [th EXCEPT ![t].pc = "c_subscribe"]
            /\ UNCHANGED startFailed
       ELSE /\ th' = [th EXCEPT ![t] = ConnectRaised(@, th[t].exc)]
            /\ startFailed' = (startFailed \/ StartFails(th[t], th[t].exc))
    /\ UNCHANGED <<cache, conn, receivers, env, phase, track>>

AfterCall(r) == IF r.op = "start" THEN "s_watch" ELSE "ret"

\* the add_signal_receiver calls and the closing rebuild_desktop_component()
Connect_Subscribe(t) ==
    /\ th[t].pc = "c_subscribe"
    /\ receivers' = ConnectReceivers(receivers)
    /\ th' = [th EXCEPT ![t] = [Rebuild(@) EXCEPT
                  !.did = IF phase = 2 THEN "reconnect" ELSE "connect",
                  !.pc = AfterCall(th[t])]]
    /\ phase' = 1
    /\ track' = IF OthersIdle(t) THEN [ok |-> TRUE, keys |-> DOMAIN screens] ELSE Off
    /\ UNCHANGED <<cache, conn, lock, env, startFailed>>


\* ------------------------------------------------------------- _disconnect
\* the remove_signal_receiver calls, the test "self.service != None and
\* self.connected" and the copy dict(self.screens) the loop runs over
Disconnect_Unsubscribe(t) ==
    LET todo == IF DisconnectClears(service, connected) THEN DOMAIN screens ELSE {} IN
    /\ th[t].pc = "d_unsub"
    /\ receivers' = DisconnectReceivers(receivers)
    /\ th' = [th EXCEPT ![t] = [@ EXCEPT !.todoS = todo,
                                         !.preS = DOMAIN screens,
                                         !.preA = DOMAIN attention_messages,
                                         !.pc = IF todo = {} THEN "d_reset" ELSE "d_loop"]]
    /\ track' = Off
    /\ UNCHANGED <<cache, conn, lock, env, phase, startFailed>>

\* self._remove_screen(screen_path) for one path of the copy
Disconnect_RemoveScreen(t) ==
    /\ th[t].pc = "d_loop"
    /\ \E p \in th[t].todoS :
        LET rest == th[t].todoS \ {p} IN
        /\ screens' = RemoveScreen(screens, p)
        /\ th' = [th EXCEPT ![t] = [Rebuild(@) EXCEPT !.todoS = rest,
                                       !.pc = IF rest = {} THEN "d_reset" ELSE "d_loop"]]
    /\ UNCHANGED <<attention_messages, conn, lock, receivers, env, phase, track, startFailed>>

\* self._reset_attention()
Disconnect_ResetAttention(t) ==
    /\ th[t].pc = "d_reset"
    /\ attention_messages' = ResetAttention(attention_messages)
    /\ th' = [th EXCEPT ![t] = [Rebuild(@) EXCEPT !.pc = "d_attn"]]
    /\ UNCHANGED <<screens, conn, lock, receivers, env, phase, track, startFailed>>

\* self._attention_requested("service", "g15-desktop-service is not running.")
Disconnect_ServiceAttention(t) ==
    LET inserted == ServiceKey \notin DOMAIN attention_messages IN
    /\ th[t].pc = "d_attn"
    /\ attention_messages' = RequestAttention(attention_messages, ServiceKey, ServiceText)
    /\ th' = [th EXCEPT ![t] = [(IF inserted THEN Rebuild(@) ELSE @) EXCEPT !.pc = "d_final"]]
    /\ UNCHANGED <<screens, conn, lock, receivers, env, phase, track, startFailed>>

\* self.service = None; self.connected = False; self.rebuild_desktop_component()
Disconnect_Finish(t) ==
    /\ th[t].pc = "d_final"
    /\ service' = None
    /\ connected' = FALSE
    /\ th' = [th EXCEPT ![t] = [Rebuild(@) EXCEPT !.did = "disconnect", !.pc = AfterCall(th[t])]]
    /\ phase' = IF phase = 1 THEN 2 ELSE phase
    /\ UNCHANGED <<cache, lock, receivers, env, track, startFailed>>

\* ------------------------------------------------------------------- start
\* start(), after the connect attempt: session_bus.add_signal_receiver(
\* self._name_owner_changed, 'org.freedesktop.DBus', 'NameOwnerChanged')
Start_Watch(t) ==
    /\ th[t].pc = "s_watch"
    /\ receivers' = add_signal_receiver(receivers, "_name_owner_changed",
                                        "org.freedesktop.DBus", "NameOwnerChanged")
    /\ th' = [th EXCEPT ![t].pc = "ret"]
    /\ UNCHANGED <<cache, conn, lock, env, phase, track, startFailed>>

\* a handler (or start) has returned or raised: its thread takes the next signal
Finish(t) ==
    /\ th[t].pc \in {"ret", "exc"}
    /\ th' = [th EXCEPT ![t] = IdleThread]
    /\ UNCHANGED <<cache, conn, lock, receivers, env, phase, track, startFailed>>

\* ------------------------------------------------------ _name_owner_changed
Deliver_NameOwnerChanged(t) ==
    /\ th[t].op = "idle"
    /\ bus # <<>>
    /\ th' = [th EXCEPT ![t] = [IdleThread EXCEPT !.op = "NameOwnerChanged", !.pc = "n_check",
                                                  !.name = Head(bus).name,
                                                  !.old = Head(bus).old,
                                                  !.new = Head(bus).new]]
    /\ bus' = Tail(bus)
    /\ UNCHANGED <<cache, conn, lock, receivers, serviceUp, acquiredAfterFail, phase, track,
                   startFailed>>

\* mutant: _name_owner_changed does not look at the name
NameOwnerAction_AnyName(name, old_owner, new_owner, svc) ==
    IF old_owner = ""
    THEN IF svc = None THEN "connect" ELSE "nothing"
    ELSE IF svc # None THEN "disconnect" ELSE "nothing"

\* what _name_owner_changed does with its arguments
NameOwnerAction(name, old_owner, new_owner, svc) ==
    IF name = WatchedName
    THEN IF old_owner = ""
         THEN IF svc = None THEN "connect" ELSE "nothing"
         ELSE IF svc # None THEN "disconnect" ELSE "nothing"
    ELSE "nothing"

NameOwnerChanged(t) ==
    LET act == NameOwnerAction(th[t].name, th[t].old, th[t].new, service) IN
    /\ th[t].pc = "n_check"
    /\ connected' = IF act = "disconnect" THEN FALSE ELSE connected
    /\ th' = [th EXCEPT ![t].pc = CASE act = "connect" -> "c_reset"
                                    [] act = "disconnect" -> "d_unsub"
                                    [] OTHER -> "ret"]
    /\ track' = IF act = "nothing" THEN track ELSE Off
    /\ UNCHANGED <<cache, service, lock, receivers, env, phase, startFailed>>

\* ------------------------------------------------------------- the session bus
NameOwnerSignal(name, old_owner, new_owner) == [name |-> name, old |-> old_owner, new |-> new_owner]

\* A NameOwnerChanged signal reaches this connection only when a match for it is
\* registered at the time it is emitted.
Emit(sig) ==
    IF receivers[RegNameOwnerChanged] > 0
    THEN bus = <<>> /\ bus' = <<sig>>
    ELSE bus' = bus

ServiceStart ==
    /\ ~serviceUp
    /\ serviceUp' = TRUE
    /\ Emit(NameOwnerSignal(WatchedName, "", Owner1))
    /\ acquiredAfterFail' = startFailed
    /\ UNCHANGED <<cache, conn, lock, receivers, th, phase, track, startFailed>>

ServiceStop ==
    /\ serviceUp
    /\ serviceUp' = FALSE
    /\ Emit(NameOwnerSignal(WatchedName, Owner1, ""))
    /\ acquiredAfterFail' = FALSE
    /\ UNCHANGED <<cache, conn, lock, receivers, th, phase, track, startFailed>>

\* the name passes from one owner to another
ServiceReplace ==
    /\ serviceUp
    /\ receivers[RegNameOwnerChanged] > 0
    /\ Emit(NameOwnerSignal(WatchedName, Owner1, Owner2))
    /\ acquiredAfterFail' = FALSE
    /\ UNCHANGED <<cache, conn, lock, receivers, th, serviceUp, phase, track, startFailed>>

\* some other name of the bus changes its owner
OtherNameOwnerChanged ==
    /\ receivers[RegNameOwnerChanged] > 0
    /\ Emit(NameOwnerSignal(OtherName, "", Owner1))
    /\ UNCHANGED <<cache, conn, lock, receivers, th, serviceUp, acquiredAfterFail, phase,
                   track, startFailed>>


\* ------------------------------------------------------- signal deliveries
\* The bus invokes a handler on an idle thread when a match for its signal is registered.
Handler(t, reg, op, pc, path, seq, title) ==
    /\ th[t].op = "idle"
    /\ receivers[reg] > 0
    /\ th' = [th EXCEPT ![t] = [IdleThread EXCEPT !.op = op, !.pc = pc, !.path = path,
                                                  !.seq = seq, !.title = title]]

Deliver_ScreenAdded(t) ==
    /\ \E p \in Paths :
        /\ Handler(t, RegScreenAdded, "ScreenAdded", "a_info", p, 0, "")
        /\ track' = IF track.ok THEN [track EXCEPT !.keys = @ \cup {p}] ELSE track
    /\ UNCHANGED <<cache, conn, lock, receivers, env, phase, startFailed>>

Deliver_ScreenRemoved(t) ==
    /\ \E p \in Paths :
        /\ Handler(t, RegScreenRemoved, "ScreenRemoved", "r_body", p, 0, "")
        /\ track' = IF track.ok THEN [track EXCEPT !.keys = @ \ {p}] ELSE track
    /\ UNCHANGED <<cache, conn, lock, receivers, env, phase, startFailed>>

Deliver_PageCreated(t) ==
    /\ \E p \in Paths, n \in Pages :  \* page_title is only logged
        Handler(t, RegPageCreated, "PageCreated", "p_get", p, n, "")
    /\ UNCHANGED <<cache, conn, lock, receivers, env, phase, track, startFailed>>

Deliver_PageTitleChanged(t) ==
    /\ \E p \in Paths, n \in Pages, title \in Titles :
        Handler(t, RegPageTitleChanged, "PageTitleChanged", "h_acquire", p, n, title)
    /\ UNCHANGED <<cache, conn, lock, receivers, env, phase, track, startFailed>>

Deliver_PageDeleting(t) ==
    /\ \E p \in Paths, n \in Pages :
        Handler(t, RegPageDeleting, "PageDeleting", "h_acquire", p, n, "")
    /\ UNCHANGED <<cache, conn, lock, receivers, env, phase, track, startFailed>>

Deliver_AttentionRequested(t) ==
    /\ \E p \in Paths, m \in Messages :
        Handler(t, RegAttentionRequested, "AttentionRequested", "u_body", p, 0, m)
    /\ UNCHANGED <<cache, conn, lock, receivers, env, phase, track, startFailed>>

Deliver_AttentionCleared(t) ==
    /\ \E p \in Paths :
        Handler(t, RegAttentionCleared, "AttentionCleared", "u_body", p, 0, "")
    /\ UNCHANGED <<cache, conn, lock, receivers, env, phase, track, startFailed>>

\* ------------------------------------------------- _add_screen as a handler
\* get_object, GetDeviceInformation, self.screens[screen_path] = screen
ScreenAdded_Insert(t) ==
    /\ th[t].pc = "a_info"
    /\ IF serviceUp
       THEN /\ screens' = AddScreen(screens, th[t].path)
            /\ th' = [th EXCEPT ![t] = [Mutate(@) EXCEPT
                          !.dropped = IF th[t].path \in DOMAIN screens
                                      THEN DOMAIN screens[th[t].path].items ELSE {},
                          !.pc = "a_attn"]]
            /\ UNCHANGED track
       ELSE /\ th' = [th EXCEPT ![t] = [@ EXCEPT !.exc = "DBusException", !.pc = "exc"]]
            /\ track' = Off
            /\ UNCHANGED screens
    /\ UNCHANGED <<attention_messages, conn, lock, receivers, env, phase, startFailed>>

\* if remote_screen.IsAttentionRequested(): screen.message = remote_screen.GetMessage()
ScreenAdded_Attention(t) ==
    /\ th[t].pc = "a_attn"
    /\ IF serviceUp
       THEN /\ \E a \in BOOLEAN, m \in Messages \ {None} :
                 screens' = SetMessage(screens, th[t].path, a, m)
            /\ th' = [th EXCEPT ![t].pc = "ret"]
            /\ UNCHANGED track
       ELSE /\ th' = [th EXCEPT ![t] = [@ EXCEPT !.exc = "DBusException", !.pc = "exc"]]
            /\ track' = Off
            /\ UNCHANGED screens
    /\ UNCHANGED <<attention_messages, conn, lock, receivers, env, phase, startFailed>>

\* ----------------------------------------------------------- _remove_screen
ScreenRemoved(t) ==
    /\ th[t].pc = "r_body"
    /\ screens' = RemoveScreen(screens, th[t].path)
    /\ th' = [th EXCEPT ![t] = [Rebuild(@) EXCEPT !.pc = "ret"]]
    /\ UNCHANGED <<attention_messages, conn, lock, receivers, env, phase, track, startFailed>>

\* ------------------------------------------------------- the page handlers
\* _page_created: page = self.session_bus.get_object(...)
PageCreated_GetObject(t) ==
    /\ th[t].pc = "p_get"
    /\ th' = [th EXCEPT ![t] = IF serviceUp
                               THEN [@ EXCEPT !.pc = "h_acquire"]
                               ELSE [@ EXCEPT !.exc = "DBusException", !.pc = "exc"]]
    /\ UNCHANGED <<cache, conn, lock, receivers, env, phase, track, startFailed>>

\* self.lock.acquire() of _page_created, _page_title_changed and _page_deleting
Handler_Acquire(t) ==
    /\ th[t].pc = "h_acquire"
    /\ CanAcquire(t)
    /\ lock' = Acquire(t)
    /\ th' = [th EXCEPT ![t].pc = "h_body"]
    /\ UNCHANGED <<cache, conn, receivers, env, phase, track, startFailed>>

\* if page.GetPriority() >= g15screen.PRI_LOW: self._add_page(screen_path, page)
PageCreated(t) ==
    /\ th[t].pc = "h_body"
    /\ th[t].op = "PageCreated"
    /\ IF serviceUp
       THEN \E pr \in Priorities, title \in Titles, hook \in HookOutcomes :
              LET res == PageStep(th[t], th[t].path, th[t].seq, pr, title, hook) IN
              /\ screens' = res.sc
              /\ th' = [th EXCEPT ![t] = [res.rec EXCEPT !.pc = "h_release"]]
       ELSE /\ th' = [th EXCEPT ![t] = [@ EXCEPT !.exc = "DBusException", !.pc = "h_release"]]
            /\ UNCHANGED screens
    /\ UNCHANGED <<attention_messages, conn, lock, receivers, env, phase, track, startFailed>>

\* self.screens[screen_path].items[str(page_sequence_number)] = title; rebuild
PageTitleChanged(t) ==
    /\ th[t].pc = "h_body"
    /\ th[t].op = "PageTitleChanged"
    /\ IF th[t].path \in DOMAIN screens
       THEN /\ screens' = SetTitle(screens, th[t].path, th[t].seq, th[t].title)
            /\ \E hook \in HookOutcomes :
                 th' = [th EXCEPT ![t] = [Rebuild(@) EXCEPT !.exc = hook, !.pc = "h_release"]]
       ELSE /\ th' = [th EXCEPT ![t] = [@ EXCEPT !.exc = "KeyError", !.pc = "h_release"]]
            /\ UNCHANGED screens
    /\ UNCHANGED <<attention_messages, conn, lock, receivers, env, phase, track, startFailed>>

\* if page_item_key in items: del items[page_item_key]; rebuild
PageDeleting(t) ==
    LET page_item_key == Str(th[t].seq) IN
    /\ th[t].pc = "h_body"
    /\ th[t].op = "PageDeleting"
    /\ IF th[t].path \notin DOMAIN screens
       THEN /\ th' = [th EXCEPT ![t] = [@ EXCEPT !.exc = "KeyError", !.pc = "h_release"]]
            /\ UNCHANGED screens
       ELSE IF page_item_key \in DOMAIN screens[th[t].path].items
       THEN /\ screens' = DeletePage(screens, th[t].path, page_item_key)
            /\ \E hook \in HookOutcomes :
                 th' = [th EXCEPT ![t] = [Rebuild(@) EXCEPT !.exc = hook, !.pc = "h_release"]]
       ELSE /\ th' = [th EXCEPT ![t].pc = "h_release"]
            /\ UNCHANGED screens
    /\ UNCHANGED <<attention_messages, conn, lock, receivers, env, phase, track, startFailed>>

\* finally: self.lock.release()
Handler_Release(t) ==
    /\ th[t].pc = "h_release"
    /\ lock' = Release(t)
    /\ th' = [th EXCEPT ![t] = [@ EXCEPT !.prio = -1, !.gotP = {},
                                         !.pc = IF th[t].exc = "none" THEN "ret" ELSE "exc"]]
    /\ UNCHANGED <<cache, conn, receivers, env, phase, track, startFailed>>

\* -------------------------------------------------- the attention handlers
AttentionRequested(t) ==
    LET inserted == th[t].path \notin DOMAIN attention_messages IN
    /\ th[t].pc = "u_body"
    /\ th[t].op = "AttentionRequested"
    /\ attention_messages' = RequestAttention(attention_messages, th[t].path, th[t].title)
    /\ th' = [th EXCEPT ![t] = [(IF inserted THEN Rebuild(@) ELSE @) EXCEPT !.pc = "ret"]]
    /\ UNCHANGED <<screens, conn, lock, receivers, env, phase, track, startFailed>>

AttentionCleared(t) ==
    LET removed == th[t].path \in DOMAIN attention_messages IN
    /\ th[t].pc = "u_body"
    /\ th[t].op = "AttentionCleared"
    /\ attention_messages' = ClearAttention(attention_messages, th[t].path)
    /\ th' = [th EXCEPT ![t] = [(IF removed THEN Rebuild(@) ELSE @) EXCEPT !.pc = "ret"]]
    /\ UNCHANGED <<screens, conn, lock, receivers, env, phase, track, startFailed>>

\* ----------------------------------------------------------- check_attention
\* the desktop component calls check_attention() between two signals
CheckAttention(t) ==
    /\ th[t].op = "idle"
    /\ th' = [th EXCEPT ![t] = [IdleThread EXCEPT !.op = "check_attention", !.pc = "ret",
                                                  !.hooks = check_attention(attention_messages)]]
    /\ UNCHANGED <<cache, conn, lock, receivers, env, phase, track, startFailed>>

\* --------------------------------------------------------- specifications
\* start(), _connect, _disconnect and _name_owner_changed
ConnectStep(t) ==
    \/ Connect_GetService(t) \/ Connect_SetConnected(t) \/ Connect_Acquire(t)
    \/ Connect_GetScreens(t) \/ Connect_AddScreen(t) \/ Connect_Attention(t)
    \/ Connect_GetPages(t) \/ Connect_Page(t) \/ Connect_Release(t)
    \/ Connect_Subscribe(t)

DisconnectStep(t) ==
    \/ Disconnect_Unsubscribe(t)
    \/ Disconnect_ResetAttention(t) \/ Disconnect_ServiceAttention(t)
    \/ Disconnect_Finish(t)

ControlStep(t) ==
    \/ Start_Watch(t) \/ Finish(t)
    \/ Deliver_NameOwnerChanged(t) \/ NameOwnerChanged(t)

\* the ScreenAdded, ScreenRemoved and PageCreated signals
ScreenStep(t) ==
    \/ Deliver_ScreenAdded(t) \/ ScreenAdded_Insert(t) \/ ScreenAdded_Attention(t)
    \/ Deliver_ScreenRemoved(t) \/ ScreenRemoved(t)
    \/ Deliver_PageCreated(t) \/ PageCreated_GetObject(t) \/ PageCreated(t)
    \/ Handler_Acquire(t) \/ Handler_Release(t)

\* the other page signals and the attention signals
OtherStep(t) ==
    \/ Deliver_PageTitleChanged(t) \/ PageTitleChanged(t)
    \/ Deliver_PageDeleting(t) \/ PageDeleting(t)
    \/ Deliver_AttentionRequested(t) \/ AttentionRequested(t)
    \/ Deliver_AttentionCleared(t) \/ AttentionCleared(t)
    \/ CheckAttention(t)

\* Spec: every signal, dispatched one at a time by the thread that ran start(); the
\* service starts, stops and is replaced at any time.
Next ==
    \/ ConnectStep(MainThread) \/ DisconnectStep(MainThread)
    \/ Disconnect_RemoveScreen(MainThread)
    \/ ControlStep(MainThread) \/ ScreenStep(MainThread) \/ OtherStep(MainThread)
    \/ ServiceStart \/ ServiceStop \/ ServiceReplace \/ OtherNameOwnerChanged
Spec == Init /\ [][Next]_vars

\* SpecMT: the signals are delivered on concurrent callback threads; the service
\* emits the screen and page-created signals and, once started, stays up (its remote
\* calls succeed).
NextMT ==
    \/ \E t \in Threads : ConnectStep(t) \/ DisconnectStep(t) \/ ControlStep(t) \/ ScreenStep(t)
    \/ ServiceStart
SpecMT == Init /\ [][NextMT]_vars

\* SpecOwner: concurrent callback threads while the service takes and loses its name;
\* of the service signals only ScreenRemoved is emitted.
NextOwner ==
    \/ \E t \in Threads : \/ ConnectStep(t) \/ DisconnectStep(t) \/ Disconnect_RemoveScreen(t)
                           \/ ControlStep(t)
                           \/ Deliver_ScreenRemoved(t) \/ ScreenRemoved(t)
    \/ ServiceStart \/ ServiceStop
SpecOwner == Init /\ [][NextOwner]_vars


\* ------------------------------------------------------------------ claims
DisconnectDone(t) == th[t].did = "disconnect"
PageKeys(sc, p) == IF p \in DOMAIN sc THEN DOMAIN sc[p].items ELSE {}
SignalHandlers == {"ScreenAdded", "ScreenRemoved", "PageCreated", "PageTitleChanged",
                   "PageDeleting", "AttentionRequested", "AttentionCleared"}

\* C1: whenever a disconnect has completed, from start() after a failed connect or
\* from an ownership-lost NameOwnerChanged, screens is empty.
C1_Orig == \A t \in Threads : DisconnectDone(t) => DOMAIN screens = {}

\* C2: after a connect that follows a disconnect which itself followed a successful
\* connect, the keys of screens are exactly what GetScreens() returned and every
\* cached screen holds exactly the enumerated pages whose priority is >= PRI_LOW.
C2_Orig ==
    \A t \in Threads : th[t].did = "reconnect" =>
        /\ DOMAIN screens = th[t].gotS
        /\ \A p \in DOMAIN screens : PageKeys(screens, p) = {k[2] : k \in {g \in th[t].gotP : g[1] = p}}

\* C3: once a connect attempt that raised a transport fault is over (start() has run
\* its except clause, the signal handler has ended), the service handle is absent,
\* connected is false, screens is empty and the attention map has the "service" entry.
C3_Orig ==
    \A t \in Threads : (th[t].cfault /\ th[t].pc \in {"s_watch", "ret", "exc"}) =>
        /\ service = None
        /\ ~connected
        /\ DOMAIN screens = {}
        /\ ServiceKey \in DOMAIN attention_messages

\* C4: after a disconnect none of the seven service signals has a registered handler,
\* and no signal ever has more than one.
C4_Orig ==
    /\ \A t \in Threads : DisconnectDone(t) => \A k \in ServiceRegs : receivers[k] = 0
    /\ \A k \in ServiceRegs : receivers[k] <= 1

\* C5: a page key appears in a cached screen's items only in a step that fetched the
\* page's priority and found it >= PRI_LOW.
C5_Orig ==
    [][\A p \in Paths : \A k \in PageKeys(screens', p) \ PageKeys(screens, p) :
          \E t \in Threads : /\ th'[t] # th[t]
                             /\ th'[t].path = p
                             /\ Str(th'[t].seq) = k
                             /\ PriorityShown(th'[t].prio)]_vars

\* C6: when a disconnect has completed the attention map holds exactly the entry
\* "service" -> "g15-desktop-service is not running.".
C6_ServiceAttentionOnly ==
    \A t \in Threads : DisconnectDone(t) => attention_messages = (ServiceKey :> ServiceText)

\* C6 witness: a disconnect completed that found other attention entries
C6_Witness ==
    \E t \in Threads : DisconnectDone(t) /\ th[t].preA # {} /\ ServiceKey \notin th[t].preA

\* C7: once the handlers of the ScreenAdded / ScreenRemoved signals delivered since
\* the connect have all returned, the keys of screens are the paths added minus the
\* paths removed, under every interleaving of the handler threads.
C7_Orig == (track.ok /\ connected /\ Quiescent) => DOMAIN screens = track.keys

\* C8: a thread changes screens or attention_messages only while it holds the lock,
\* so no thread changes them while another thread holds the lock.
C8_Orig ==
    [][\A t \in Threads :
          (th'[t] # th[t] /\ cache' # cache) => (lock.owner = t /\ lock'.owner \in {t, NoThread})]_vars

\* C9: a signal handler that changed the cache has invoked the rebuild hook after its
\* last change when it returns.
C9_Orig ==
    \A t \in Threads : (th[t].pc = "ret" /\ th[t].op \in SignalHandlers) => ~th[t].dirty

\* C10: after the connect attempt of start() has failed, once the service has taken
\* its name and kept it and every signal in flight has been handled, the component
\* is connected.
C10_Orig == (acquiredAfterFail /\ Quiescent) => connected

\* a signal handler is running on some thread
HandlerRunning == \E t \in Threads : th[t].op \in SignalHandlers /\ th[t].pc \notin {"ret", "exc"}

\* C11: in every state between operations, and in every state in which a signal
\* handler is running, the service handle is present exactly when connected is true.
C11_Orig == (Quiescent \/ HandlerRunning) => ((service # None) <=> connected)

\* C12: a handled AttentionRequested(p, m) leaves p in the attention map, with m when p
\* was absent and with the message already stored otherwise, and has invoked rebuild
\* exactly when p was absent; a handled AttentionCleared(p) leaves p out of the map and
\* has invoked rebuild exactly when p was present; no other entry changes.
C12_AttentionHandlers ==
    [][\A t \in Threads : (th[t].pc = "u_body" /\ th'[t].pc = "ret") =>
          LET p == th[t].path
              am == attention_messages
              was == p \in DOMAIN am
          IN  /\ \A q \in DOMAIN am \ {p} : q \in DOMAIN am' /\ am'[q] = am[q]
              /\ IF th[t].op = "AttentionRequested"
                 THEN /\ DOMAIN am' = DOMAIN am \cup {p}
                      /\ am'[p] = IF was THEN am[p] ELSE th[t].title
                      /\ th'[t].rebuilt = ~was
                 ELSE /\ DOMAIN am' = DOMAIN am \ {p}
                      /\ th'[t].rebuilt = was]_vars

\* C12 witness: a second request for a path that is in the map, with another message,
\* has been handled
C12_Witness ==
    \E t \in Threads :
        /\ th[t].op = "AttentionRequested" /\ th[t].pc = "ret" /\ ~th[t].rebuilt
        /\ th[t].path \in DOMAIN attention_messages
        /\ attention_messages[th[t].path] # th[t].title

ConnectDone(t) == th[t].did \in {"connect", "reconnect"}

\* C14: when a connect has succeeded the component is connected with its service
\* handle, the attention map is empty, also when a cached screen carries an attention
\* message, and rebuild has been invoked after the last change of the cache.
C14_AfterConnect ==
    \A t \in Threads : ConnectDone(t) =>
        /\ connected
        /\ service # None
        /\ attention_messages = EmptyMap
        /\ ~th[t].dirty

\* C14 witness: a connect run by the name-owner handler has succeeded and cached a
\* screen whose attention message is set
C14_Witness ==
    \E t \in Threads :
        /\ ConnectDone(t) /\ th[t].op = "NameOwnerChanged"
        /\ \E p \in DOMAIN screens : screens[p].message # None

PageHandlers == {"PageCreated", "PageTitleChanged", "PageDeleting"}

\* C15: a page handler whose screen path is not cached (for PageCreated: once the
\* fetched priority is >= PRI_LOW) raises KeyError, changes neither screens nor the
\* attention map, invokes no rebuild, and its release leaves the lock free and lets
\* the fault out of the handler.
C15_UnknownScreen ==
    [][\A t \in Threads : (th[t].op \in PageHandlers /\ th'[t] # th[t]) =>
          /\ (/\ th[t].pc = "h_body"
              /\ th[t].path \notin DOMAIN screens
              /\ th[t].op = "PageCreated" => PriorityShown(th'[t].prio))
             => /\ cache' = cache
                /\ th'[t].exc = "KeyError"
                /\ ~th'[t].rebuilt
                /\ th'[t].pc = "h_release"
          /\ (th[t].pc = "h_release" /\ th[t].exc = "KeyError")
             => /\ cache' = cache
                /\ lock' = Free
                /\ ~th'[t].rebuilt
                /\ th'[t].pc = "exc"]_vars

\* C15 witness: PageCreated for a path that is not cached has ended in KeyError
C15_Witness ==
    \E t \in Threads :
        /\ th[t].op = "PageCreated" /\ th[t].pc = "exc" /\ th[t].exc = "KeyError"
        /\ th[t].path \notin DOMAIN screens

\* C16: the body of PageCreated(screen, seq, title) for a cached screen inserts the
\* key str(seq) with the fetched title and rebuilds when the fetched priority is
\* >= PRI_LOW and the key is absent; otherwise (key present, priority below PRI_LOW,
\* or the priority could not be fetched) it leaves the cache as it was and does not
\* rebuild.
C16_PageCreated ==
    [][\A t \in Threads :
          (/\ th[t].op = "PageCreated" /\ th[t].pc = "h_body" /\ th'[t] # th[t]
           /\ th[t].path \in DOMAIN screens)
          => LET p == th[t].path
                 k == Str(th[t].seq)
                 items == screens[p].items
             IN  /\ attention_messages' = attention_messages
                 /\ IF PriorityShown(th'[t].prio) /\ k \notin DOMAIN items
                    THEN /\ \E title \in Titles :
                              screens' = [screens EXCEPT ![p].items = Put(items, k, title)]
                         /\ th'[t].rebuilt
                    ELSE /\ screens' = screens
                         /\ ~th'[t].rebuilt]_vars

\* C16 witness: PageCreated with a passing priority for a page that is already in the
\* items of its screen has run its body
C16_Witness ==
    \E t \in Threads :
        /\ th[t].op = "PageCreated" /\ th[t].pc = "h_release" /\ th[t].exc = "none"
        /\ PriorityShown(th[t].prio) /\ ~th[t].rebuilt
        /\ th[t].path \in DOMAIN screens
        /\ Str(th[t].seq) \in DOMAIN screens[th[t].path].items

\* C17: the name-owner handler, given a name other than org.gnome15.Gnome15, or an
\* acquisition (old owner empty) while the service handle is present, or a loss while
\* the handle is absent, returns at once: service, connected, screens, the attention
\* map and the registered receivers are unchanged and rebuild is not invoked.
C17_NameOwnerIgnored ==
    [][\A t \in Threads :
          (/\ th[t].op = "NameOwnerChanged" /\ th[t].pc = "n_check" /\ th'[t] # th[t]
           /\ \/ th[t].name # WatchedName
              \/ th[t].old = "" /\ service # None
              \/ th[t].old # "" /\ service = None)
          => /\ cache' = cache
             /\ conn' = conn
             /\ receivers' = receivers
             /\ th'[t].pc = "ret"
             /\ ~th'[t].rebuilt]_vars

\* C17 witness: an acquisition of the watched name was handled while the service
\* handle was present
C17_Witness ==
    \E t \in Threads :
        /\ th[t].op = "NameOwnerChanged" /\ th[t].pc = "ret" /\ th[t].did = "none"
        /\ th[t].name = WatchedName /\ th[t].old = "" /\ service # None

\* C18: when the handler of a NameOwnerChanged signal for org.gnome15.Gnome15 has
\* returned, the component is connected exactly when the new owner of the signal is
\* not empty.
C18_Orig ==
    \A t \in Threads :
        (th[t].op = "NameOwnerChanged" /\ th[t].pc = "ret" /\ th[t].name = WatchedName)
        => (connected <=> th[t].new # "")

\* the positions between lock.acquire() and the end of the finally clause
LockedRegion == {"c_screens", "c_loop", "c_attn", "c_pages", "c_page", "c_release",
                 "h_body", "h_release"}

\* C19: a thread holds the lock only between an acquire and the release of the
\* finally clause, once at most, so when a handler or a connect sequence is over,
\* however it ended, it does not hold the lock, and the lock is free between handlers.
C19_LockReleased ==
    /\ \A t \in Threads : th[t].pc \notin LockedRegion => lock.owner # t
    /\ lock.count <= 1
    /\ Quiescent => lock = Free

\* C19 witness: a page handler has ended with the fault its rebuild raised and the
\* lock is free
C19_Witness ==
    \E t \in Threads :
        /\ th[t].op \in PageHandlers /\ th[t].pc = "exc" /\ th[t].exc = "Exception"
        /\ lock = Free

====
